---- MODULE Spec2Model ----
(***************************************************************************)
(* Price resolution of src/utils/utils.py: the retry/backoff price fetch   *)
(* (get_avg_close_price), the process-wide price cache (_price_cache,      *)
(* get_cached_avg_price, clear_price_cache) and the bulk load              *)
(* (fetch_all_supported_assets); then the fee rate (calculate_fee_rate),   *)
(* the date conversion (date_to_unix_timestamp), the special-case asset    *)
(* IDs and the amount normalizer that spec.md builds on them.              *)
(*                                                                         *)
(* Python values are tagged records (field t).  None is [t |-> "None"]; a  *)
(* decoded JSON int is [t |-> "num", v]; the float sum/len is the reduced  *)
(* fraction [t |-> "frac", num, den], so the mean of small integer closes  *)
(* is exact; JSON objects and lists carry their fields and items.  A dict  *)
(* is a function whose DOMAIN is its key set.  Dict objects live in a heap *)
(* so that aliasing and copying can be told apart.                         *)
(***************************************************************************)
EXTENDS Integers, Sequences, FiniteSets, TLC

VARIABLES
    heap,         \* object id -> dict (asset id -> None or number)
    returned,     \* <<object id>> of the mapping the last completed bulk load returned, or <<>>
    op,           \* the top-level operation in progress or just finished
    fpc,          \* position inside get_avg_close_price
    asset_id,     \* argument of the current get_avg_close_price call
    max_retries,  \* argument of the current get_avg_close_price call
    base_delay,   \* argument of the current get_avg_close_price call
    attempt,      \* loop variable of get_avg_close_price
    result,       \* value returned, or exception raised, by the last get_avg_close_price call
    clog,         \* events of the current get_avg_close_price call: HTTP GETs and sleeps
    idx,          \* loop variable of fetch_all_supported_assets (1-based position in the registry)
    blog,         \* events of the current bulk load: calls, cache writes, pacing sleeps
    got,          \* value returned by the last get_cached_avg_price call
    loaded,       \* TRUE once a bulk load has been started
    http_gets,    \* number of HTTP GETs issued by the current top-level operation
    norm,         \* value returned by the last normalize call
    registry,     \* the module globals that hold the special-case asset IDs
    feecalc,      \* a calculate_fee_rate call: the frame passed and the frame returned
    datecalc      \* a date_to_unix_timestamp call: the strings passed and the pair returned

vars == <<heap, returned, op, fpc, asset_id, max_retries, base_delay, attempt,
          result, clog, idx, blog, got, loaded, http_gets, norm, registry, feecalc, datecalc>>

\* what the price fetch, the cache and the bulk load never touch
calc == <<registry, feecalc, datecalc>>

fetchFrame == <<fpc, asset_id, max_retries, base_delay, attempt, result, clog>>

----------------------------------------------------------------------------
(* Bounds *)

NumAssets    == 3   \* number of registry entries modelled
MaxCandles   == 3   \* longest candle list the feed answers with
MaxClose     == 3   \* largest close value in a candle
MaxRetriesArg == 3  \* largest max_retries a direct call passes
MaxBaseDelay == 2   \* largest base_delay a direct call passes
MaxRaw       == 2   \* largest raw amount passed to normalize
MaxYearsOn   == 2   \* dates range over the years 1970..1970+MaxYearsOn, 2000 and 2024

----------------------------------------------------------------------------
(* Python values *)

None  == [t |-> "None"]

RECURSIVE GCD(_, _)
GCD(a, b) == IF b = 0 THEN a ELSE GCD(b, a % b)

\* the float n/d (n >= 0, d > 0), kept exact as a fraction in lowest terms
Frac(n, d) == LET g == GCD(n, d) IN [t |-> "frac", num |-> n \div g, den |-> d \div g]

RECURSIVE Pow2(_)
Pow2(n) == IF n = 0 THEN 1 ELSE 2 * Pow2(n - 1)

(* JSON values as response.json() decodes them; JSON null decodes to None *)
JNum(n)    == [t |-> "num", v |-> n]
JStr       == [t |-> "str"]
JObj(f)    == [t |-> "obj", f |-> f]
JList(s)   == [t |-> "list", items |-> s]
\* a body that is not JSON: response.json() raises e (requests raises its own
\* JSONDecodeError, a RequestException)
NotJson(e) == [t |-> "notjson", exc |-> e]

\* dict.get(key): the value stored, or None when the key is absent
DictGet(d, key) == IF key \in DOMAIN d THEN d[key] ELSE None

\* Python truthiness of a decoded JSON value
Truthy(j) ==
    CASE j.t = "None" -> FALSE
      [] j.t = "num"  -> j.v # 0
      [] j.t = "str"  -> TRUE
      [] j.t = "obj"  -> DOMAIN j.f # {}
      [] j.t = "list" -> Len(j.items) > 0

\* what "for candle in data" yields: the items of a list, the keys of a dict,
\* the characters of a string
Iterate(j) ==
    CASE j.t = "list" -> j.items
      [] j.t = "obj"  -> [i \in 1..Cardinality(DOMAIN j.f) |-> JStr]
      [] j.t = "str"  -> <<JStr>>

\* sum(close_prices) over decoded JSON ints
RECURSIVE SumSeq(_)
SumSeq(s) == IF s = <<>> THEN 0 ELSE Head(s).v + SumSeq(Tail(s))

----------------------------------------------------------------------------
(* The registry *)

\* the 20 asset IDs of SUPPORTED_ASSETS in insertion order.  Every asset ID of
\* the module is divided by 100 to stay within TLC's integers: the IDs remain
\* distinct (two IDs of WC_ASSETS differ only in their last three digits) and
\* unsorted
RegistryIds ==
    <<315667, 31788951, 12844444, 25370137, 4523997, 3861927,
      7600371, 22000000, 27262524, 2878678, 4005932, 12659750,
      29942336, 11346965, 7964250, 7009650, 3861959, 17321651,
      3127, 30542261>>

\* the registry as modelled: its first NumAssets entries
SUPPORTED_ASSETS == SubSeq(RegistryIds, 1, NumAssets)

SUPPORTED_ASSET_IDS == {SUPPORTED_ASSETS[i] : i \in 1..Len(SUPPORTED_ASSETS)}

----------------------------------------------------------------------------
(* The price feed: what one requests.get can answer *)

SeqsUpTo(S, n) == UNION {[1..k -> S] : k \in 0..n}

\* a candle object, without a close, or with a close that is null, a number
\* or a string
Candles ==
    {JObj([open |-> JNum(1)])} \cup
    {JObj([open |-> JNum(1), close |-> c]) :
        c \in {None, JStr} \cup {JNum(n) : n \in 0..MaxClose}}

\* an item of a list body: a candle object or a bare number
Elements == Candles \cup {JNum(1)}

\* the bodies of a 2xx response
Bodies ==
    {NotJson("JSONDecodeError"),
     None, JNum(0), JNum(1), JStr, JObj(<<>>), JObj([error |-> JStr])} \cup
    {JList(s) : s \in SeqsUpTo(Elements, MaxCandles)}

Response(status, body) == [status |-> status, body |-> body, exc |-> "none"]
\* requests.get itself raises exc: no response object
Failure(exc) == [status |-> 0, body |-> None, exc |-> exc]

Responses(bodies) ==
    {Response(200, b) : b \in bodies} \cup
    {Response(s, None) : s \in {429, 404, 500}} \cup
    {Failure(e) : e \in {"Timeout", "ConnectionError"}}

----------------------------------------------------------------------------
(* get_avg_close_price *)

NoResult == [k |-> "none"]

\* the outcome of one loop iteration; sleep is <<secs>> when time.sleep(secs)
\* was called and <<>> when it was not
Ret(v)  == [k |-> "return", v |-> v, exc |-> "none", sleep |-> <<>>]
Exc(e)  == [k |-> "raise", v |-> None, exc |-> e, sleep |-> <<>>]
Cont(s) == [k |-> "continue", v |-> None, exc |-> "none", sleep |-> s]

\* the exception classes of requests that derive from RequestException
RequestExceptions ==
    {"RequestException", "HTTPError", "Timeout", "ConnectionError", "JSONDecodeError"}

\* candle.get('close')
CloseOf(candle) == DictGet(candle.f, "close")

\* variant: the closes kept by truthiness, which drops a close of 0
ClosePrices_DropsZero(data) ==
    LET kept == SelectSeq(Iterate(data),
                          LAMBDA candle : CloseOf(candle) # None /\ CloseOf(candle) # JNum(0))
    IN  [i \in 1..Len(kept) |-> CloseOf(kept[i])]

\* line 140: the closes that are not None, in order (0 is kept)
ClosePrices(data) ==
    LET kept == SelectSeq(Iterate(data), LAMBDA candle : CloseOf(candle) # None)
    IN  [i \in 1..Len(kept) |-> CloseOf(kept[i])]

\* lines 136-146: the decoded body to the average close price
AvgOfData(data) ==
    IF ~Truthy(data) THEN Ret(None)
    ELSE IF data.t = "num" THEN Exc("TypeError")                 \* len() of a number
    ELSE IF \E i \in 1..Len(Iterate(data)) : Iterate(data)[i].t # "obj"
         THEN Exc("AttributeError")                              \* candle.get on a non-dict
    ELSE LET close_prices == ClosePrices(data)
         IN  IF close_prices = <<>> THEN Ret(None)
             ELSE IF \E i \in 1..Len(close_prices) : close_prices[i].t # "num"
                  THEN Exc("TypeError")                          \* sum() over a non-number
             ELSE Ret(Frac(SumSeq(close_prices), Len(close_prices)))

\* variant: the backoff grows linearly, base_delay * (attempt + 1)
TryBody_LinearBackoff(r, att, delay) ==
    IF r.exc # "none" THEN Exc(r.exc)
    ELSE IF r.status = 429 THEN Cont(<<delay * (att + 1)>>)
    ELSE IF r.status >= 400 THEN Exc("HTTPError")
    ELSE IF r.body.t = "notjson" THEN Exc(r.body.exc)
    ELSE AvgOfData(r.body)

\* variant: a 429 ends the call with None instead of being retried
TryBody_RateLimitAborts(r, att, delay) ==
    IF r.exc # "none" THEN Exc(r.exc)
    ELSE IF r.status = 429 THEN Ret(None)
    ELSE IF r.status >= 400 THEN Exc("HTTPError")
    ELSE IF r.body.t = "notjson" THEN Exc(r.body.exc)
    ELSE AvgOfData(r.body)

\* variant: no test for 429 before raise_for_status
TryBody_No429Check(r, att, delay) ==
    IF r.exc # "none" THEN Exc(r.exc)
    ELSE IF r.status >= 400 THEN Exc("HTTPError")
    ELSE IF r.body.t = "notjson" THEN Exc(r.body.exc)
    ELSE AvgOfData(r.body)

\* lines 124-146: the body of the try statement for one answer r of the feed
TryBody(r, att, delay) ==
    IF r.exc # "none" THEN Exc(r.exc)
    ELSE IF r.status = 429 THEN Cont(<<delay * Pow2(att)>>)
    ELSE IF r.status >= 400 THEN Exc("HTTPError")                \* raise_for_status
    ELSE IF r.body.t = "notjson" THEN Exc(r.body.exc)            \* response.json()
    ELSE AvgOfData(r.body)

\* variant: every HTTP error status is retried while attempts are left
Handlers_RetryAnyHttpError(out, r, att, retries) ==
    IF out.k # "raise" THEN out
    ELSE IF out.exc = "HTTPError"
         THEN IF att < retries - 1 THEN Cont(<<>>) ELSE Ret(None)
    ELSE IF out.exc \in RequestExceptions \cup {"KeyError", "IndexError", "TypeError"}
         THEN Ret(None)
    ELSE out

\* lines 148-155: the except clauses applied to the outcome of the try body
Handlers(out, r, att, retries) ==
    IF out.k # "raise" THEN out
    ELSE IF out.exc = "HTTPError"
         THEN IF r.status = 429 /\ att < retries - 1 THEN Cont(<<>>) ELSE Ret(None)
    ELSE IF out.exc \in RequestExceptions \cup {"KeyError", "IndexError", "TypeError"}
         THEN Ret(None)
    ELSE out

\* one iteration of the for loop for the answer r
Iteration(r, att, retries, delay) == Handlers(TryBody(r, att, delay), r, att, retries)

GetEvent(id, att, r) == [e |-> "get", id |-> id, attempt |-> att, r |-> r]
SleepEvent(att, secs) == [e |-> "sleep", attempt |-> att, secs |-> secs]

\* entry of get_avg_close_price (lines 104-122)
EnterFetch(id, retries, delay) ==
    /\ fpc' = "loop"
    /\ asset_id' = id
    /\ max_retries' = retries
    /\ base_delay' = delay
    /\ attempt' = 0
    /\ result' = NoResult
    /\ clog' = <<>>

\* variant: one iteration more, range(max_retries + 1)
InRange_OneMore(att, retries) == att <= retries

\* line 122: attempt is a value of range(max_retries)
InRange(att, retries) == att < retries

\* lines 122-155: one loop iteration: one HTTP GET and what follows from its answer
get_avg_close_price_attempt(feed) ==
    /\ fpc = "loop"
    /\ InRange(attempt, max_retries)
    /\ \E r \in feed :
         LET out == Iteration(r, attempt, max_retries, base_delay) IN
         /\ clog' = clog \o <<GetEvent(asset_id, attempt, r)>> \o
                       [i \in DOMAIN out.sleep |-> SleepEvent(attempt, out.sleep[i])]
         /\ IF out.k = "continue"
            THEN /\ attempt' = attempt + 1
                 /\ UNCHANGED <<fpc, result>>
            ELSE /\ fpc' = (IF out.k = "return" THEN "returned" ELSE "raised")
                 /\ result' = [k |-> out.k, v |-> out.v, exc |-> out.exc]
                 /\ UNCHANGED attempt
    /\ http_gets' = http_gets + 1
    /\ UNCHANGED <<heap, returned, op, asset_id, max_retries, base_delay, idx, blog, got, loaded,
                   norm>>
    /\ UNCHANGED calc

\* lines 122, 157-158: the loop is exhausted
get_avg_close_price_exhausted ==
    /\ fpc = "loop"
    /\ ~InRange(attempt, max_retries)
    /\ fpc' = "returned"
    /\ result' = [k |-> "return", v |-> None, exc |-> "none"]
    /\ UNCHANGED <<heap, returned, op, asset_id, max_retries, base_delay, attempt, clog,
                   idx, blog, got, loaded, http_gets, norm>>
    /\ UNCHANGED calc

----------------------------------------------------------------------------
(* The price cache *)

\* the dict object bound to _price_cache for the life of the process
CacheRef == 0

EmptyDict == <<>>

\* d[key] = v
DictSet(d, key, v) == [x \in DOMAIN d \cup {key} |-> IF x = key THEN v ELSE d[x]]

\* an object id not in use in heap h
FreshRef(h) == CHOOSE o \in 1..2 : o \notin DOMAIN h

\* variant: the dict itself is handed out, not a copy
DictCopy_Alias(h, ref) == <<h, ref>>

\* d.copy(): a new object with the contents of object ref; the pair of the
\* new heap and the reference to the new object
DictCopy(h, ref) ==
    <<[o \in DOMAIN h \cup {FreshRef(h)} |-> IF o = FreshRef(h) THEN h[ref] ELSE h[o]],
      FreshRef(h)>>

\* the heap once the caller holds the mapping ref and no other: the objects
\* no longer referenced are gone and the caller's mapping, when it is not the
\* cache object itself, is named 1; the pair of the heap and the reference
Release(h, ref) ==
    IF ref = CacheRef
    THEN <<[o \in {CacheRef} |-> h[o]], CacheRef>>
    ELSE <<[o \in {CacheRef, 1} |-> IF o = 1 THEN h[ref] ELSE h[o]], 1>>

\* variant: a key that is absent reads as the price 1
CacheLookup_DefaultOne(cache, id) == IF id \in DOMAIN cache THEN cache[id] ELSE Frac(1, 1)

\* the value get_cached_avg_price returns for the cache contents
CacheLookup(cache, id) == IF id \in DOMAIN cache THEN cache[id] ELSE None

----------------------------------------------------------------------------
(* The caller *)

MAX_RETRIES_DEFAULT == 3
BASE_DELAY_DEFAULT  == 1

\* line 78: an asset ID outside SUPPORTED_ASSETS (scaled like RegistryIds)
ASSET_KEEP_NATIVE == 9713818

\* line 79
ASSET_USE_USDC == 9713845
\* variant: the native-keep ID is also listed as wrapped
WC_ASSETS_WithNative == <<1277461, 1277455, 1277467, 31458628, ASSET_KEEP_NATIVE>>

\* line 80
WC_ASSETS == <<1277461, 1277455, 1277467, 31458628>>
\* line 81
ASSET_USE_USDC_SCALED == 8491916

\* lines 76-82: the module globals of the special cases as the import leaves them
InitialRegistry ==
    [ASSET_KEEP_NATIVE     |-> ASSET_KEEP_NATIVE,
     ASSET_USE_USDC        |-> ASSET_USE_USDC,
     WC_ASSETS             |-> WC_ASSETS,
     ASSET_USE_USDC_SCALED |-> ASSET_USE_USDC_SCALED]

\* no call of a pure function has been made
NoCall == [k |-> "none"]

Running == op \in {"direct", "bulk"}

\* lines 65-82: the module globals after the import, no call in progress
InitProg ==
    /\ heap = [o \in {CacheRef} |-> EmptyDict]
    /\ returned = <<>>
    /\ op = "idle"
    /\ fpc = "none"
    /\ asset_id = 0
    /\ max_retries = 0
    /\ base_delay = 0
    /\ attempt = 0
    /\ result = NoResult
    /\ clog = <<>>
    /\ idx = 0
    /\ blog = <<>>
    /\ got = NoResult
    /\ loaded = FALSE
    /\ http_gets = 0
    /\ norm = NoResult
    /\ registry = InitialRegistry

\* the state after the import of the module
Init ==
    /\ InitProg
    /\ feecalc = NoCall
    /\ datecalc = NoCall

\* no get_avg_close_price call is in progress
NoFetch ==
    /\ fpc' = "none"
    /\ asset_id' = 0 /\ max_retries' = 0 /\ base_delay' = 0 /\ attempt' = 0
    /\ result' = NoResult
    /\ clog' = <<>>

\* a direct call get_avg_close_price(id, start_date, end_date, retries, delay)
DirectCall(retriesArgs, delayArgs) ==
    /\ ~Running
    /\ op' = "direct"
    /\ \E id \in SUPPORTED_ASSET_IDS, retries \in retriesArgs, delay \in delayArgs :
          EnterFetch(id, retries, delay)
    /\ idx' = 0 /\ blog' = <<>> /\ got' = NoResult
    /\ http_gets' = 0 /\ norm' = NoResult
    /\ UNCHANGED calc
    /\ UNCHANGED <<heap, returned, loaded>>

\* variant: the value of a direct call is written to the cache
DirectDone_Caches ==
    /\ op = "direct"
    /\ fpc \in {"returned", "raised"}
    /\ op' = "idle"
    /\ heap' = [heap EXCEPT ![CacheRef] = DictSet(@, asset_id, result.v)]
    /\ NoFetch
    /\ UNCHANGED <<returned, idx, blog, got, loaded, http_gets, norm>>
    /\ UNCHANGED calc

\* the direct call is over: its value or its exception has reached the caller
DirectDone ==
    /\ op = "direct"
    /\ fpc \in {"returned", "raised"}
    /\ op' = "idle"
    /\ NoFetch
    /\ UNCHANGED <<heap, returned, idx, blog, got, loaded, http_gets, norm>>
    /\ UNCHANGED calc

\* variant: a miss fetches the price from the feed and caches it
get_cached_avg_price_FetchOnMiss(id) ==
    /\ ~Running
    /\ op' = "get"
    /\ idx' = 0 /\ blog' = <<>>
    /\ norm' = NoResult
    /\ UNCHANGED calc
    /\ UNCHANGED <<returned, loaded, fpc, asset_id, max_retries, base_delay, attempt, result>>
    /\ IF id \in DOMAIN heap[CacheRef]
       THEN /\ got' = [k |-> "return", id |-> id, v |-> heap[CacheRef][id]]
            /\ http_gets' = 0
            /\ UNCHANGED <<heap, clog>>
       ELSE \E r \in {Response(200, JList(<<>>))} :
            /\ clog' = <<GetEvent(id, 0, r)>>
            /\ http_gets' = 1
            /\ heap' = [heap EXCEPT ![CacheRef] = DictSet(@, id, AvgOfData(r.body).v)]
            /\ got' = [k |-> "return", id |-> id, v |-> AvgOfData(r.body).v]

\* lines 161-174
get_cached_avg_price(id) ==
    /\ ~Running
    /\ op' = "get"
    /\ got' = [k |-> "return", id |-> id, v |-> CacheLookup(heap[CacheRef], id)]
    /\ idx' = 0 /\ blog' = <<>>
    /\ http_gets' = 0 /\ norm' = NoResult
    /\ UNCHANGED calc
    /\ UNCHANGED <<heap, returned, loaded>>
    /\ UNCHANGED fetchFrame

\* variant: the name is rebound to a new dict locally, the cache object is untouched
clear_price_cache_Rebinds ==
    /\ ~Running
    /\ op' = "clear"
    /\ idx' = 0 /\ blog' = <<>> /\ got' = NoResult
    /\ http_gets' = 0 /\ norm' = NoResult
    /\ UNCHANGED calc
    /\ UNCHANGED <<heap, returned, loaded>>
    /\ UNCHANGED fetchFrame

\* lines 210-212
clear_price_cache ==
    /\ ~Running
    /\ op' = "clear"
    /\ heap' = [heap EXCEPT ![CacheRef] = EmptyDict]
    /\ idx' = 0 /\ blog' = <<>> /\ got' = NoResult
    /\ http_gets' = 0 /\ norm' = NoResult
    /\ UNCHANGED calc
    /\ UNCHANGED <<returned, loaded>>
    /\ UNCHANGED fetchFrame

\* the caller changes the mapping a bulk load returned to it: m[id] = None
ChangeReturned(id) ==
    /\ ~Running
    /\ returned # <<>>
    /\ op' = "change"
    /\ heap' = [heap EXCEPT ![returned[1]] = DictSet(@, id, None)]
    /\ idx' = 0 /\ blog' = <<>> /\ got' = NoResult
    /\ http_gets' = 0 /\ norm' = NoResult
    /\ UNCHANGED calc
    /\ UNCHANGED <<returned, loaded>>
    /\ UNCHANGED fetchFrame

----------------------------------------------------------------------------
(* fetch_all_supported_assets *)

CallEvent(id)     == [e |-> "call", id |-> id]
StoreEvent(id, v) == [e |-> "store", id |-> id, v |-> v]
PaceEvent         == [e |-> "pace"]

\* variant: the pacing sleep also follows the last asset
Pacing_AfterEvery(i) == IF i <= Len(SUPPORTED_ASSETS) THEN <<PaceEvent>> ELSE <<>>

\* lines 203-204: the pacing sleep after the asset at position i
Pacing(i) == IF i < Len(SUPPORTED_ASSETS) THEN <<PaceEvent>> ELSE <<>>

\* variant: a None result is not written
CacheStore_SkipsNone(cache, id, avg_price) ==
    IF avg_price = None THEN cache ELSE DictSet(cache, id, avg_price)

\* variant: a key already cached keeps its value
CacheStore_KeepsOld(cache, id, avg_price) ==
    IF id \in DOMAIN cache THEN cache ELSE DictSet(cache, id, avg_price)

\* line 195: _price_cache[asset_id] = avg_price
CacheStore(cache, id, avg_price) == DictSet(cache, id, avg_price)

\* lines 177-191: the call and the start of the loop
fetch_all_supported_assets_begin ==
    /\ ~Running
    /\ op' = "bulk"
    /\ idx' = 1
    /\ blog' = <<>>
    /\ got' = NoResult
    /\ http_gets' = 0 /\ norm' = NoResult
    /\ UNCHANGED calc
    /\ loaded' = TRUE
    /\ UNCHANGED <<heap, returned>>
    /\ UNCHANGED fetchFrame

\* variant: the registry is walked from its last entry to its first
items_Reversed(i) == SUPPORTED_ASSETS[Len(SUPPORTED_ASSETS) + 1 - i]

\* line 191: the asset ID of the i-th pair of SUPPORTED_ASSETS.items(), which
\* a dict yields in insertion order
items(i) == SUPPORTED_ASSETS[i]

\* lines 191-194: the next asset of the registry is fetched with the default
\* retry budget and base delay
fetch_all_supported_assets_call ==
    /\ op = "bulk"
    /\ fpc = "none"
    /\ idx <= Len(SUPPORTED_ASSETS)
    /\ EnterFetch(items(idx), MAX_RETRIES_DEFAULT, BASE_DELAY_DEFAULT)
    /\ blog' = Append(blog, CallEvent(items(idx)))
    /\ UNCHANGED <<heap, returned, op, idx, got, loaded, http_gets, norm>>
    /\ UNCHANGED calc

\* lines 195-204: the result is written to the cache, then the pacing sleep
fetch_all_supported_assets_store ==
    /\ op = "bulk"
    /\ fpc = "returned"
    /\ heap' = [heap EXCEPT ![CacheRef] = CacheStore(@, asset_id, result.v)]
    /\ blog' = blog \o <<StoreEvent(asset_id, result.v)>> \o Pacing(idx)
    /\ idx' = idx + 1
    /\ NoFetch
    /\ UNCHANGED <<returned, op, got, loaded, http_gets, norm>>
    /\ UNCHANGED calc

\* an exception of get_avg_close_price leaves fetch_all_supported_assets too
fetch_all_supported_assets_raise ==
    /\ op = "bulk"
    /\ fpc = "raised"
    /\ op' = "bulk_raised"
    /\ NoFetch
    /\ UNCHANGED <<heap, returned, idx, blog, got, loaded, http_gets, norm>>
    /\ UNCHANGED calc

\* lines 206-207: the loop is over; the caller binds the mapping returned and
\* lets go of the one it held before
fetch_all_supported_assets_return ==
    /\ op = "bulk"
    /\ fpc = "none"
    /\ idx > Len(SUPPORTED_ASSETS)
    /\ op' = "bulk_done"
    /\ LET c == DictCopy(heap, CacheRef)
           kept == Release(c[1], c[2])
       IN  /\ returned' = <<kept[2]>>
           /\ heap' = kept[1]
    /\ UNCHANGED <<idx, blog, got, loaded, http_gets, norm>>
    /\ UNCHANGED calc
    /\ UNCHANGED fetchFrame

----------------------------------------------------------------------------
(* The amount normalizer (spec.md 4.5); utils.py holds its constants only *)

\* SUPPORTED_ASSETS['usdc'], the first entry of the registry
USDC_asset_id == SUPPORTED_ASSETS[1]

\* the special-case class of an asset ID, Generic when it is in none
resolve(id) ==
    IF id = registry.ASSET_KEEP_NATIVE THEN "NativeKeep"
    ELSE IF id = registry.ASSET_USE_USDC THEN "UsdcPriced"
    ELSE IF id = registry.ASSET_USE_USDC_SCALED THEN "FixedScaled"
    ELSE IF \E i \in DOMAIN registry.WC_ASSETS : registry.WC_ASSETS[i] = id THEN "Wrapped"
    ELSE "Generic"

\* the record is flagged: no price to convert it with
Missing == [t |-> "missing"]

\* raw_amount * price for a cached price, which is None or a float
TimesPrice(raw_amount, price) ==
    IF price = None THEN Missing ELSE Frac(raw_amount * price.num, price.den)

\* the value of normalize(id, raw_amount) for the cache contents; the product
\* with USDC_SCALING_FACTOR and the wrapped passthrough are kept symbolic
NormalizedValue(cache, id, raw_amount) ==
    CASE resolve(id) = "NativeKeep"  -> Frac(raw_amount, 1)
      [] resolve(id) = "UsdcPriced"  -> TimesPrice(raw_amount, CacheLookup(cache, USDC_asset_id))
      [] resolve(id) = "FixedScaled" -> [t |-> "scaled", amount |-> raw_amount]
      [] resolve(id) = "Wrapped"     -> [t |-> "wrapped", amount |-> raw_amount]
      [] OTHER                       -> TimesPrice(raw_amount, CacheLookup(cache, id))

\* normalize(id, raw_amount)
normalize(id, raw_amount) ==
    /\ ~Running
    /\ op' = "normalize"
    /\ norm' = [k |-> "return", id |-> id, raw_amount |-> raw_amount,
                v |-> NormalizedValue(heap[CacheRef], id, raw_amount)]
    /\ idx' = 0 /\ blog' = <<>> /\ got' = NoResult
    /\ http_gets' = 0
    /\ UNCHANGED calc
    /\ UNCHANGED <<heap, returned, loaded>>
    /\ UNCHANGED fetchFrame

\* the IDs normalize is called with: every supported asset and one ID of each
\* special-case class
NormalizeIds ==
    SUPPORTED_ASSET_IDS
        \cup {ASSET_KEEP_NATIVE, ASSET_USE_USDC, ASSET_USE_USDC_SCALED, WC_ASSETS[1]}

----------------------------------------------------------------------------
(* The specifications *)

\* the bodies the feed answers with during the runs of the whole program: no
\* candles, the closes 1, 2, 3, and an error object in place of the candle list
FewBodies ==
    {JList(<<>>),
     JList(<<JObj([open |-> JNum(1), close |-> JNum(1)]),
             JObj([open |-> JNum(1), close |-> JNum(2)]),
             JObj([open |-> JNum(1), close |-> JNum(3)])>>),
     JObj([error |-> JStr])}

\* one get_avg_close_price call after the other, any arguments, any answers
NextFetch ==
    \/ DirectCall(0..MaxRetriesArg, 0..MaxBaseDelay)
    \/ get_avg_close_price_attempt(Responses(Bodies))
    \/ get_avg_close_price_exhausted
    \/ DirectDone

SpecFetch == Init /\ [][NextFetch]_vars

\* the whole program: cache reads, clears, bulk loads and direct calls
Next ==
    \/ \E id \in SUPPORTED_ASSET_IDS \cup {ASSET_KEEP_NATIVE} : get_cached_avg_price(id)
    \/ clear_price_cache
    \/ \E id \in SUPPORTED_ASSET_IDS : ChangeReturned(id)
    \/ \E id \in NormalizeIds, raw_amount \in 0..MaxRaw : normalize(id, raw_amount)
    \/ fetch_all_supported_assets_begin
    \/ fetch_all_supported_assets_call
    \/ fetch_all_supported_assets_store
    \/ fetch_all_supported_assets_raise
    \/ fetch_all_supported_assets_return
    \/ DirectCall({MAX_RETRIES_DEFAULT}, {BASE_DELAY_DEFAULT})
    \/ get_avg_close_price_attempt(Responses(FewBodies))
    \/ get_avg_close_price_exhausted
    \/ DirectDone

Spec == Init /\ [][Next]_vars


\* the steps of a call that has started: the interpreter runs it on, one
\* statement after the other, until it returns or raises
Progress ==
    \/ get_avg_close_price_attempt(Responses(FewBodies))
    \/ get_avg_close_price_exhausted
    \/ DirectDone
    \/ fetch_all_supported_assets_call
    \/ fetch_all_supported_assets_store
    \/ fetch_all_supported_assets_raise
    \/ fetch_all_supported_assets_return

\* direct calls with any retry budget and bulk loads, one after the other
NextRun ==
    \/ DirectCall(0..MaxRetriesArg, {BASE_DELAY_DEFAULT})
    \/ fetch_all_supported_assets_begin
    \/ get_avg_close_price_attempt(Responses(FewBodies))
    \/ get_avg_close_price_exhausted
    \/ DirectDone
    \/ fetch_all_supported_assets_call
    \/ fetch_all_supported_assets_store
    \/ fetch_all_supported_assets_raise
    \/ fetch_all_supported_assets_return

\* a call that has started is not left half-way: weak fairness of its steps
SpecRun == Init /\ [][NextRun]_vars /\ WF_vars(Progress)

----------------------------------------------------------------------------
(* calculate_fee_rate *)

MaxAmount == 1   \* amounts range over -MaxAmount..MaxAmount and 100
MaxFee    == 1   \* fees range over -MaxFee..MaxFee and 5
MaxRows   == 2   \* longest frame passed

\* float64 values that are not finite
PosInf == [t |-> "inf"]
NegInf == [t |-> "-inf"]
NaN    == [t |-> "nan"]

\* the float n/d for d # 0, of either sign
SignedFrac(n, d) == IF d < 0 THEN Frac(-n, -d) ELSE Frac(n, d)

\* line 53: the division of two columns, element by element; a zero divisor
\* gives an infinity or NaN and raises nothing
FloatDiv(a, b) ==
    IF b # 0 THEN SignedFrac(a, b)
    ELSE IF a > 0 THEN PosInf
    ELSE IF a < 0 THEN NegInf
    ELSE NaN

\* np.select for one element: the choice of the first condition that holds
np_select(conditions, choices, default) ==
    IF \E i \in DOMAIN conditions : conditions[i]
    THEN choices[CHOOSE i \in DOMAIN conditions :
                    conditions[i] /\ \A j \in 1..(i - 1) : ~conditions[j]]
    ELSE default

\* variant: only NaN is replaced
replace_OnlyNaN(v) == IF v = NaN THEN PosInf ELSE v

\* line 60: replace([np.inf, -np.inf, np.nan], np.inf)
replace(v) == IF v \in {PosInf, NegInf, NaN} THEN PosInf ELSE v

\* lines 44-60 for one row
FeeRate(amount, fee_computed) ==
    LET conditions == <<amount = 0 /\ fee_computed = 0,
                        amount = 0 /\ fee_computed > 0,
                        amount >= 0>>
        choices    == <<Frac(0, 1), PosInf, FloatDiv(fee_computed, amount)>>
    IN  replace(np_select(conditions, choices, PosInf))

Amounts == (-MaxAmount..MaxAmount) \cup {100}
Fees    == (-MaxFee..MaxFee) \cup {5}

\* the rows of a frame passed: finite amount and fee_computed
Rows == [amount : Amounts, fee_computed : Fees]

\* the variables of the price fetch, the cache and the bulk load
prog == <<heap, returned, op, fpc, asset_id, max_retries, base_delay, attempt,
          result, clog, idx, blog, got, loaded, http_gets, norm>>

\* lines 28-62: the frame returned is a copy of df with the column fee_rate
calculate_fee_rate ==
    /\ feecalc.k = "args"
    /\ feecalc' = [k |-> "done", df |-> feecalc.df,
                   out |-> [i \in DOMAIN feecalc.df |->
                              [amount       |-> feecalc.df[i].amount,
                               fee_computed |-> feecalc.df[i].fee_computed,
                               fee_rate     |-> FeeRate(feecalc.df[i].amount,
                                                        feecalc.df[i].fee_computed)]]]
    /\ UNCHANGED <<prog, registry, datecalc>>

\* the caller starts another frame
NewFrame ==
    /\ feecalc.k = "done"
    /\ feecalc' = [k |-> "args", df |-> <<>>]
    /\ UNCHANGED <<prog, registry, datecalc>>

\* the caller adds a record to the frame it is going to pass
AddRow ==
    /\ feecalc.k = "args"
    /\ Len(feecalc.df) < MaxRows
    /\ \E r \in Rows : feecalc' = [feecalc EXCEPT !.df = Append(@, r)]
    /\ UNCHANGED <<prog, registry, datecalc>>

InitFee ==
    /\ InitProg
    /\ feecalc = [k |-> "args", df |-> <<>>]
    /\ datecalc = NoCall

NextFee == AddRow \/ calculate_fee_rate \/ NewFrame

\* one calculate_fee_rate call after the other, on any frame of at most MaxRows rows
SpecFee == InitFee /\ [][NextFee]_vars

----------------------------------------------------------------------------
(* date_to_unix_timestamp *)

Digits == <<"0", "1", "2", "3", "4", "5", "6", "7", "8", "9">>

\* the character of a digit, and the digit of a character (-1 when it is none)
Chr(n) == Digits[n + 1]
Val(c) == IF \E i \in 1..10 : Digits[i] = c
          THEN (CHOOSE i \in 1..10 : Digits[i] = c) - 1
          ELSE -1

\* the string YYYY-MM-DD the caller writes for a year, a month and a day
DateStr(y, m, d) ==
    <<Chr(y \div 1000), Chr((y \div 100) % 10), Chr((y \div 10) % 10), Chr(y % 10), "-",
      Chr(m \div 10), Chr(m % 10), "-", Chr(d \div 10), Chr(d % 10)>>

is_leap(y) == y % 4 = 0 /\ (y % 100 # 0 \/ y % 400 = 0)

days_in_month(y, m) ==
    IF m = 2 THEN (IF is_leap(y) THEN 29 ELSE 28)
    ELSE IF m \in {4, 6, 9, 11} THEN 30 ELSE 31

\* datetime.strptime(s, "%Y-%m-%d"): the fields of the string, or ValueError
\* when it does not match the format or names no day of the calendar
strptime(s) ==
    LET y == 1000 * Val(s[1]) + 100 * Val(s[2]) + 10 * Val(s[3]) + Val(s[4])
        m == 10 * Val(s[6]) + Val(s[7])
        d == 10 * Val(s[9]) + Val(s[10])
    IN  IF /\ Len(s) = 10 /\ s[5] = "-" /\ s[8] = "-"
           /\ \A i \in {1, 2, 3, 4, 6, 7, 9, 10} : Val(s[i]) >= 0
           /\ y >= 1 /\ m \in 1..12 /\ d >= 1 /\ d <= days_in_month(y, m)
        THEN [k |-> "datetime", year |-> y, month |-> m, day |-> d, second |-> 0]
        ELSE [k |-> "ValueError"]

\* the number of days before January 1st of year y, counted from 0001-01-01
days_before_year(y) ==
    (y - 1) * 365 + ((y - 1) \div 4) - ((y - 1) \div 100) + ((y - 1) \div 400)

RECURSIVE days_before_month(_, _)
days_before_month(y, m) ==
    IF m = 1 THEN 0 ELSE days_before_month(y, m - 1) + days_in_month(y, m - 1)

\* the proleptic Gregorian ordinal of a date, 0001-01-01 being day 1
ymd2ord(y, m, d) == days_before_year(y) + days_before_month(y, m) + d

\* a datetime as seconds since 0001-01-01 00:00:00 is too wide for the
\* integers of the checker: a point in time is (ordinal, second of the day)
Moment(dt) == [ord |-> ymd2ord(dt.year, dt.month, dt.day), second |-> dt.second]

\* moment + timedelta(days, seconds), the second of the day kept in 0..86399
PlusDelta(mo, days, seconds) ==
    LET s == mo.second + seconds
    IN  [ord |-> mo.ord + days + (IF s < 0 THEN -1 ELSE s \div 86400),
         second |-> s % 86400]

\* int(dt.timestamp()) of a datetime whose tzinfo is UTC
timestamp(mo) == (mo.ord - ymd2ord(1970, 1, 1)) * 86400 + mo.second

\* variant: the end is midnight of the next day
end_date_NextMidnight(dt) == PlusDelta(Moment(dt), 1, 0)

\* line 96: end of the day: + timedelta(days=1) - timedelta(seconds=1)
end_date(dt) == PlusDelta(PlusDelta(Moment(dt), 1, 0), 0, -1)

\* lines 84-101
DateToUnixTimestamp(start_date_str, end_date_str) ==
    LET sd == strptime(start_date_str)
        ed == strptime(end_date_str)
    IN  IF sd.k = "ValueError" \/ ed.k = "ValueError"
        THEN [k |-> "raise", exc |-> "ValueError"]
        ELSE [k |-> "return", start_timestamp |-> timestamp(Moment(sd)),
              end_timestamp |-> timestamp(end_date(ed))]

Years  == (1970..(1970 + MaxYearsOn)) \cup {2000, 2024}
Months == 1..12
Days   == {1, 2, 28, 29, 30, 31}

\* the dates the caller writes, the 30th of February and the like included
Ymds == [y : Years, m : Months, d : Days]

\* the caller chooses the start date
PickStart ==
    /\ datecalc.k = "none"
    /\ \E a \in Ymds : datecalc' = [k |-> "start", start |-> a]
    /\ UNCHANGED <<prog, registry, feecalc>>

\* the caller chooses the end date and writes both as strings
PickEnd ==
    /\ datecalc.k = "start"
    /\ \E b \in Ymds :
          datecalc' = [k |-> "args", start |-> datecalc.start, end |-> b,
                       start_date_str |-> DateStr(datecalc.start.y, datecalc.start.m,
                                                  datecalc.start.d),
                       end_date_str |-> DateStr(b.y, b.m, b.d)]
    /\ UNCHANGED <<prog, registry, feecalc>>

\* lines 84-101: the call and its value or exception
date_to_unix_timestamp ==
    /\ datecalc.k = "args"
    /\ datecalc' = [k |-> "done", start |-> datecalc.start, end |-> datecalc.end,
                    out |-> DateToUnixTimestamp(datecalc.start_date_str,
                                                datecalc.end_date_str)]
    /\ UNCHANGED <<prog, registry, feecalc>>

\* the caller is ready for the next range
NextRange ==
    /\ datecalc.k = "done"
    /\ datecalc' = NoCall
    /\ UNCHANGED <<prog, registry, feecalc>>

NextDate == PickStart \/ PickEnd \/ date_to_unix_timestamp \/ NextRange

\* one date_to_unix_timestamp call after the other, on any two dates
SpecDate == Init /\ [][NextDate]_vars

----------------
(* Properties of get_avg_close_price *)

\* the positions of the HTTP GETs in the log of the current call
GetIdx == {i \in DOMAIN clog : clog[i].e = "get"}

\* the statuses answered to the GETs of the current call, in order (0: no answer)
Statuses ==
    LET gets == SelectSeq(clog, LAMBDA ev : ev.e = "get")
    IN  [i \in 1..Len(gets) |-> gets[i].r.status]

\* the seconds slept by the current call, in order
Sleeps ==
    LET sl == SelectSeq(clog, LAMBDA ev : ev.e = "sleep")
    IN  [i \in 1..Len(sl) |-> sl[i].secs]

\* the answer to the last GET of the current call
LastAnswer == clog[CHOOSE i \in GetIdx : \A j \in GetIdx : j <= i].r

ReturnedNone == fpc = "returned" /\ result.k = "return" /\ result.v = None

\* C1: a 429 on attempt a (from 0) is followed by a sleep of base_delay * 2^a
\* seconds; with base_delay = 1 and max_retries = 3, three 429s in a row give
\* the sleeps 1, 2, 4 and then the result None.
C1_Backoff ==
    /\ \A i \in GetIdx :
          clog[i].r.status = 429 =>
             /\ clog[i].attempt = Cardinality({j \in GetIdx : j < i})
             /\ i + 1 \in DOMAIN clog
             /\ clog[i + 1].e = "sleep"
             /\ clog[i + 1].secs = base_delay * (2 ^ clog[i].attempt)
    /\ (fpc = "returned" /\ base_delay = 1 /\ max_retries = 3
          /\ Statuses = <<429, 429, 429>>)
          => (Sleeps = <<1, 2, 4>> /\ ReturnedNone)

C1_Witness ==
    /\ fpc = "returned" /\ base_delay = 1 /\ max_retries = 3
    /\ Statuses = <<429, 429, 429>>
    /\ Sleeps = <<1, 2, 4>>

\* the answer is an HTTP error status other than 429, or no answer at all
\* because the transport failed
HardFailure(r) ==
    \/ r.exc \in {"Timeout", "ConnectionError"}
    \/ r.exc = "none" /\ r.status >= 400 /\ r.status # 429

\* C2: an HTTP error status other than 429, or a transport error, ends the call
\* at once with None: nothing (no sleep, no GET) follows that GET.
C2_HardFailureAborts ==
    \A i \in GetIdx :
       HardFailure(clog[i].r) => (i = Len(clog) /\ ReturnedNone)

\* a hard failure on the first of three attempts, retry budget left
C2_Witness ==
    /\ fpc = "returned" /\ max_retries = 3 /\ Len(clog) = 1
    /\ clog[1].r.status = 500

C2_WitnessTransport ==
    /\ fpc = "returned" /\ max_retries = 3 /\ Len(clog) = 3
    /\ clog[3].e = "get" /\ clog[3].r.exc = "Timeout"

\* C3: whatever the feed answers, the call returns None or a number and never
\* raises.
C3_NeverRaises ==
    /\ fpc # "raised"
    /\ fpc = "returned" => (result.k = "return" /\ result.v.t \in {"None", "frac"})

\* a list of candle objects whose closes are numbers, null or absent
WellFormed(body) ==
    /\ body.t = "list"
    /\ \A i \in DOMAIN body.items :
          /\ body.items[i].t = "obj"
          /\ "close" \in DOMAIN body.items[i].f =>
                body.items[i].f.close.t \in {"None", "num"}

\* the candles of a well-formed body that carry a non-null close
NonNull(body) ==
    {i \in DOMAIN body.items :
        "close" \in DOMAIN body.items[i].f /\ body.items[i].f.close.t = "num"}

RECURSIVE SumOver(_, _)
SumOver(body, I) ==
    IF I = {} THEN 0
    ELSE LET i == CHOOSE j \in I : TRUE
         IN  body.items[i].f.close.v + SumOver(body, I \ {i})

\* v is the arithmetic mean of the non-null closes of body
IsMeanOf(v, body) ==
    /\ v.t = "frac"
    /\ v.den > 0
    /\ v.num * Cardinality(NonNull(body)) = SumOver(body, NonNull(body)) * v.den

\* v is the outcome of a successful response: None for no data, else the mean
IsOutcomeOf(v, body) ==
    IF body = None \/ NonNull(body) = {} THEN v = None ELSE IsMeanOf(v, body)

Successful(r) == r.exc = "none" /\ r.status = 200 /\ (r.body = None \/ WellFormed(r.body))

\* C4: a 429 ends the call only on the last attempt: after k < max_retries
\* 429s a successful answer is returned as its outcome, and max_retries 429s
\* give None.
C4_RateLimitTerminalOnlyLast ==
    /\ (GetIdx # {} /\ LastAnswer.status = 429 /\ Len(Statuses) < max_retries)
          => fpc = "loop"
    /\ (GetIdx # {} /\ Successful(LastAnswer)
          /\ \A i \in 1..(Len(Statuses) - 1) : Statuses[i] = 429)
          => (fpc = "returned" /\ result.k = "return"
              /\ IsOutcomeOf(result.v, LastAnswer.body))
    /\ (fpc = "returned" /\ max_retries > 0 /\ Len(Statuses) = max_retries
          /\ \A i \in 1..Len(Statuses) : Statuses[i] = 429)
          => ReturnedNone

C4_Witness ==
    /\ fpc = "returned" /\ max_retries = 3
    /\ Statuses = <<429, 429, 200>>
    /\ result.v.t = "frac"

Candle(c) == JObj([open |-> JNum(1), close |-> c])

\* C5: a successful response gives None for an empty or missing candle list
\* and when no close is non-null, else the mean of exactly the non-null closes
\* (0 counts, null and absent do not); closes 1, 2, 3 give 2.
C5_AverageOfNonNullCloses ==
    (GetIdx # {} /\ Successful(LastAnswer)) =>
        /\ fpc = "returned" /\ result.k = "return"
        /\ IsOutcomeOf(result.v, LastAnswer.body)
        /\ LastAnswer.body = JList(<<Candle(JNum(1)), Candle(JNum(2)), Candle(JNum(3))>>)
              => (result.v.num = 2 /\ result.v.den = 1)
        /\ (LastAnswer.body # None /\ LastAnswer.body.items = <<>>) => result.v = None

\* closes 0, null, 3: the mean is 3/2
C5_Witness ==
    /\ fpc = "returned" /\ GetIdx # {}
    /\ LastAnswer.status = 200
    /\ LastAnswer.body = JList(<<Candle(JNum(0)), Candle(None), Candle(JNum(3))>>)
    /\ result.v = [t |-> "frac", num |-> 3, den |-> 2]

----------------------------------------------------------------------------
(* Properties of the cache and of the bulk load *)

\* the contents of _price_cache
price_cache == heap[CacheRef]

BulkOps == {"bulk", "bulk_done", "bulk_raised"}

\* C6: get_cached_avg_price is a pure lookup: the stored value when the key
\* is present, None when it is absent; it issues no HTTP GET and changes no
\* dict; before any bulk load it returns None.
C6_PureLookup ==
    /\ [](op = "get" =>
             /\ \/ got.id \in DOMAIN price_cache /\ got.v = price_cache[got.id]
                \/ got.id \notin DOMAIN price_cache /\ got.v = None
             /\ ~loaded => (got.v = None /\ clog = <<>>))
    /\ [][op' = "get" => (heap' = heap /\ clog' = clog /\ returned' = returned)]_vars

C6_Witness ==
    /\ op = "get" /\ loaded
    /\ got.id \in DOMAIN price_cache /\ got.v.t = "frac"

C6_WitnessStoredNone ==
    op = "get" /\ got.id \in DOMAIN price_cache /\ got.v = None

C6_WitnessBeforeLoad ==
    op = "get" /\ ~loaded /\ got.id \in SUPPORTED_ASSET_IDS

\* C7: clear_price_cache leaves the cache without keys, it stays so until a
\* bulk load writes to it, and meanwhile get_cached_avg_price returns None
\* for every ID, the IDs cached before the clear included.
C7_ClearThenAbsent ==
    /\ [](op = "clear" => DOMAIN price_cache = {})
    /\ [][(DOMAIN price_cache = {} /\ op' \notin BulkOps)
             => DOMAIN heap'[CacheRef] = {}]_vars
    /\ []((op = "get" /\ DOMAIN price_cache = {}) => got.v = None)

\* a load, a clear, then a read of an ID the load had cached with a price
C7_Witness ==
    /\ op = "get" /\ loaded /\ DOMAIN price_cache = {}
    /\ returned # <<>>
    /\ got.id \in DOMAIN heap[returned[1]]
    /\ heap[returned[1]][got.id].t = "frac"
    /\ got.v = None

\* the events of kind e about asset id in the log of the current bulk load
BulkEvents(e, id) == {i \in DOMAIN blog : blog[i].e = e /\ blog[i].id = id}

\* C8: a bulk load calls get_avg_close_price at most once per asset and, when
\* it returns, exactly once for every asset of the registry; each result, None
\* included, is stored under the ID of the asset it was fetched for.
C8_OneCallPerAssetStored ==
    /\ op \in BulkOps =>
          \A id \in SUPPORTED_ASSET_IDS :
             /\ Cardinality(BulkEvents("call", id)) <= 1
             /\ Cardinality(BulkEvents("store", id)) <= Cardinality(BulkEvents("call", id))
             /\ \A i \in BulkEvents("store", id) :
                   /\ i > 1 /\ blog[i - 1] = CallEvent(id)
                   /\ id \in DOMAIN price_cache
                   /\ price_cache[id] = blog[i].v
    /\ (op = "bulk" /\ fpc \in {"loop", "returned", "raised"}) =>
          /\ blog[Len(blog)] = CallEvent(asset_id)
          /\ asset_id = SUPPORTED_ASSETS[idx]
    /\ (op = "bulk" /\ fpc = "returned" /\ Len(clog) > 0
           /\ clog[Len(clog)].e = "get" /\ clog[Len(clog)].r.status = 200
           /\ WellFormed(clog[Len(clog)].r.body))
          => IsOutcomeOf(result.v, clog[Len(clog)].r.body)
    /\ op = "bulk_done" =>
          /\ DOMAIN price_cache = SUPPORTED_ASSET_IDS
          /\ \A id \in SUPPORTED_ASSET_IDS :
                /\ Cardinality(BulkEvents("call", id)) = 1
                /\ Cardinality(BulkEvents("store", id)) = 1

\* the load of the example: a price, no data, a price
C8_Witness ==
    /\ op = "bulk_done"
    /\ price_cache[SUPPORTED_ASSETS[1]] = [t |-> "frac", num |-> 2, den |-> 1]
    /\ price_cache[SUPPORTED_ASSETS[2]] = None
    /\ price_cache[SUPPORTED_ASSETS[3]].t = "frac"

\* the third asset of the example: a 429, then a 200 whose average is stored next
C8_WitnessRetried ==
    /\ op = "bulk" /\ fpc = "returned" /\ idx = 3
    /\ Statuses = <<429, 200>>
    /\ result.v.t = "frac"
    /\ price_cache[SUPPORTED_ASSETS[1]] = [t |-> "frac", num |-> 2, den |-> 1]
    /\ price_cache[SUPPORTED_ASSETS[2]] = None

\* the position of asset id in the registry
PositionOf(id) == CHOOSE i \in DOMAIN SUPPORTED_ASSETS : SUPPORTED_ASSETS[i] = id

PaceIdx == {i \in DOMAIN blog : blog[i].e = "pace"}

\* C9: in a bulk load over N assets the pacing sleep follows the cache write
\* of every asset but the last: one pacing sleep between two successive
\* assets, none after the last, N - 1 when the load returns.
C9_PacingBetweenAssets ==
    op \in BulkOps =>
       /\ \A i \in DOMAIN blog :
             blog[i].e = "store" =>
                IF PositionOf(blog[i].id) < Len(SUPPORTED_ASSETS)
                THEN i + 1 \in DOMAIN blog /\ blog[i + 1].e = "pace"
                ELSE i = Len(blog)
       /\ \A i \in PaceIdx :
             /\ i > 1 /\ blog[i - 1].e = "store"
             /\ i < Len(blog) => blog[i + 1].e = "call"
       /\ op = "bulk_done" => Cardinality(PaceIdx) = Len(SUPPORTED_ASSETS) - 1

\* a load that returned: N - 1 pacing sleeps, the last event is the last write
C9_Witness ==
    /\ op = "bulk_done"
    /\ Cardinality(PaceIdx) = Len(SUPPORTED_ASSETS) - 1
    /\ blog[Len(blog)].e = "store"

\* C10: the mapping a bulk load returns has the contents of the cache at that
\* moment and is a copy: clears and later loads leave it as it is, and a
\* change of it leaves the cache as it is.
C10_SnapshotCopy ==
    /\ [](op = "bulk_done" => (returned # <<>> /\ heap[returned[1]] = price_cache))
    /\ [][(returned # <<>> /\ op' \in {"clear", "bulk", "bulk_raised", "direct", "get", "idle"})
             => (returned' = returned /\ heap'[returned[1]] = heap[returned[1]])]_vars
    /\ [][op' = "change" => heap'[CacheRef] = price_cache]_vars

\* the cache was cleared and the mapping returned before still has its prices
C10_Witness ==
    /\ op = "clear" /\ returned # <<>>
    /\ DOMAIN heap[returned[1]] = SUPPORTED_ASSET_IDS
    /\ \E id \in SUPPORTED_ASSET_IDS : heap[returned[1]][id].t = "frac"
    /\ DOMAIN price_cache = {}

\* a later load has overwritten a price that the mapping returned before keeps
C10_WitnessLaterLoad ==
    /\ op = "bulk" /\ returned # <<>>
    /\ \E id \in SUPPORTED_ASSET_IDS :
          /\ id \in DOMAIN price_cache
          /\ heap[returned[1]][id].t = "frac"
          /\ price_cache[id] = None

\* the caller changed its mapping and the cache keeps the price
C10_WitnessChange ==
    /\ op = "change"
    /\ \E id \in SUPPORTED_ASSET_IDS :
          /\ id \in DOMAIN price_cache
          /\ price_cache[id].t = "frac"
          /\ heap[returned[1]][id] = None

----------------------------------------------------------------------------
(* Properties of calculate_fee_rate *)

\* the rows of the frame returned by the call that has just finished
OutRows == IF feecalc.k = "done" THEN {feecalc.out[i] : i \in DOMAIN feecalc.out} ELSE {}

\* v is the quotient f / a of the reals, a # 0
IsRatio(v, f, a) == v.t = "frac" /\ v.den > 0 /\ v.num * a = f * v.den

\* C11 as stated: first matching rule, where a remaining record with
\* amount >= 0 gets the float quotient fee_computed / amount (which is
\* -infinity for amount == 0 and fee_computed < 0) and a negative amount gets
\* +infinity.
C11_RemainingGetQuotient ==
    \A r \in OutRows :
        /\ (r.amount = 0 /\ r.fee_computed = 0) => r.fee_rate = Frac(0, 1)
        /\ (r.amount = 0 /\ r.fee_computed > 0) => r.fee_rate = PosInf
        /\ (r.amount = 0 /\ r.fee_computed < 0) => r.fee_rate = NegInf
        /\ r.amount > 0 => IsRatio(r.fee_rate, r.fee_computed, r.amount)
        /\ r.amount < 0 => r.fee_rate = PosInf

\* C11 amended: amount == 0 and fee_computed == 0 gives 0; amount == 0 with
\* any other fee_computed gives +infinity; amount > 0 gives
\* fee_computed / amount; a negative amount gives +infinity. So (0,0) gives 0,
\* (0,5) gives +infinity and (100,1) gives 0.01.
C11_FeeRateRule ==
    \A r \in OutRows :
        /\ (r.amount = 0 /\ r.fee_computed = 0) => r.fee_rate = Frac(0, 1)
        /\ (r.amount = 0 /\ r.fee_computed # 0) => r.fee_rate = PosInf
        /\ r.amount > 0 => IsRatio(r.fee_rate, r.fee_computed, r.amount)
        /\ r.amount < 0 => r.fee_rate = PosInf
        /\ (r.amount = 0 /\ r.fee_computed = 5) => r.fee_rate = PosInf
        /\ (r.amount = 100 /\ r.fee_computed = 1) =>
               r.fee_rate = [t |-> "frac", num |-> 1, den |-> 100]

\* a frame with the rows (100, 1) and (0, -1) has been rated 0.01 and +infinity
C11_Witness ==
    /\ [amount |-> 100, fee_computed |-> 1,
        fee_rate |-> [t |-> "frac", num |-> 1, den |-> 100]] \in OutRows
    /\ [amount |-> 0, fee_computed |-> -1, fee_rate |-> PosInf] \in OutRows

\* C12 as stated: for every finite pair the fee_rate is 0, a finite
\* non-negative ratio or +infinity; never NaN, never -infinity, never negative.
C12_NeverNegative ==
    \A r \in OutRows :
        \/ r.fee_rate = PosInf
        \/ r.fee_rate.t = "frac" /\ r.fee_rate.num >= 0 /\ r.fee_rate.den > 0

----------------------------------------------------------------------------
(* Properties of the amount normalizer and of the registry *)

\* the special-case IDs of the source
SpecialIds ==
    {ASSET_KEEP_NATIVE, ASSET_USE_USDC, ASSET_USE_USDC_SCALED}
        \cup {WC_ASSETS[i] : i \in DOMAIN WC_ASSETS}

Classes(reg) ==
    <<{reg.ASSET_KEEP_NATIVE},
      {reg.ASSET_USE_USDC},
      {reg.ASSET_USE_USDC_SCALED},
      {reg.WC_ASSETS[i] : i \in DOMAIN reg.WC_ASSETS}>>

\* C14: the four special-case ID sets are pairwise disjoint, so every asset
\* ID is in at most one class, and the registry constants are the same in
\* every reachable state: no operation changes them.  (The IDs are the
\* source's divided by 100; IDs that differ after the division differ before.)
C14_DisjointImmutable ==
    /\ [](\A i, j \in 1..4 : i # j => Classes(registry)[i] \cap Classes(registry)[j] = {})
    /\ [](\A id \in NormalizeIds :
             Cardinality({i \in 1..4 : id \in Classes(registry)[i]}) <= 1)
    /\ [](registry = InitialRegistry)
    /\ [][registry' = registry]_vars

\* after a bulk load an amount of a wrapped asset has been normalized, and
\* the registry is the one of the import
C14_Witness ==
    /\ op = "normalize"
    /\ loaded
    /\ resolve(norm.id) = "Wrapped"
    /\ registry = InitialRegistry

----------------------------------------------------------------------------
(* Properties of the order of a bulk load, of the cache contents and of the *)
(* cache writers                                                           *)

\* the events of a bulk load over the whole registry when nothing raises:
\* call, store and pacing sleep of each asset in registry order, no pacing
\* sleep after the last
EventKind(i) == <<"call", "store", "pace">>[((i - 1) % 3) + 1]
EventAsset(i) == SUPPORTED_ASSETS[((i - 1) \div 3) + 1]

\* C15: the bulk load processes the assets strictly one after another in
\* registry insertion order: the HTTP attempts and backoff sleeps of an asset
\* happen only after the cache write and the pacing sleep of every earlier
\* asset and before any later asset is called, and the cache writes happen in
\* registry order.
C15_SequentialRegistryOrder ==
    /\ [](op \in BulkOps =>
            /\ Len(blog) <= 3 * Len(SUPPORTED_ASSETS) - 1
            /\ \A i \in DOMAIN blog :
                  /\ blog[i].e = EventKind(i)
                  /\ blog[i].e \in {"call", "store"} => blog[i].id = EventAsset(i)
            /\ \A i \in DOMAIN clog : clog[i].e = "get" =>
                  /\ clog[i].id = SUPPORTED_ASSETS[idx]
                  /\ Len(blog) = 3 * (idx - 1) + 1)
    /\ [][(op = "bulk" /\ http_gets' # http_gets) =>
             /\ blog' = blog /\ idx' = idx /\ heap' = heap
             /\ clog'[Len(clog')].e \in {"get", "sleep"}
             /\ \A j \in 1..(idx - 1) :
                   /\ blog[3 * j - 1].e = "store" /\ blog[3 * j - 1].id = SUPPORTED_ASSETS[j]
                   /\ blog[3 * j].e = "pace"
                   /\ SUPPORTED_ASSETS[j] \in DOMAIN price_cache
             /\ \A j \in (idx + 1)..Len(SUPPORTED_ASSETS) :
                   BulkEvents("call", SUPPORTED_ASSETS[j]) = {}]_vars
    /\ [][(op = "bulk" /\ heap'[CacheRef] # heap[CacheRef]) =>
             /\ fpc = "returned" /\ fpc' = "none"
             /\ asset_id = SUPPORTED_ASSETS[idx]
             /\ idx' = idx + 1
             /\ {SUPPORTED_ASSETS[j] : j \in 1..idx} \subseteq DOMAIN heap'[CacheRef]]_vars

\* the second asset is being fetched after a retry: the first asset is
\* stored and paced, the third has not been called
C15_Witness ==
    /\ op = "bulk"
    /\ idx = 2
    /\ fpc = "loop"
    /\ attempt = 1
    /\ Len(blog) = 4
    /\ blog[2].e = "store" /\ blog[3].e = "pace" /\ blog[4] = CallEvent(SUPPORTED_ASSETS[2])
    /\ Len(clog) = 2 /\ clog[1].e = "get" /\ clog[2].e = "sleep"

\* the key set of the cache is empty or the whole registry
EmptyOrFull(keys) == keys = {} \/ keys = SUPPORTED_ASSET_IDS

\* every asset of the registry has been stored by the bulk load in progress
\* or just returned
AllStored == op \in {"bulk", "bulk_done"} /\ idx > Len(SUPPORTED_ASSETS)

\* C16: after completed bulk loads and clears the key set of the cache is
\* empty or exactly the supported IDs: a completed load leaves all of them, a
\* clear none, and no step outside a load changes the key set to anything
\* else; after a completed load every cached value is the one that load
\* stored, whatever was cached before.
C16_EmptyOrFullLatestLoad ==
    /\ [](AllStored =>
             /\ DOMAIN price_cache = SUPPORTED_ASSET_IDS
             /\ \A id \in SUPPORTED_ASSET_IDS :
                   \E i \in DOMAIN blog :
                      /\ blog[i].e = "store" /\ blog[i].id = id
                      /\ price_cache[id] = blog[i].v)
    /\ [](op = "clear" => DOMAIN price_cache = {})
    /\ [][(EmptyOrFull(DOMAIN price_cache) /\ op' \notin {"bulk", "bulk_raised"})
             => EmptyOrFull(DOMAIN heap'[CacheRef])]_vars
    /\ [][(op' = "bulk_done" /\ op # "bulk_done") =>
             (op = "bulk" /\ heap'[CacheRef] = heap[CacheRef])]_vars

\* a second load has stored every asset without a clear in between: the
\* mapping the first load returned has the price 2 for the first asset, the
\* cache now has None for it
C16_Witness ==
    /\ AllStored
    /\ returned # <<>>
    /\ heap[returned[1]][SUPPORTED_ASSETS[1]] = Frac(2, 1)
    /\ price_cache[SUPPORTED_ASSETS[1]] = None
    /\ price_cache[SUPPORTED_ASSETS[2]] = Frac(2, 1)

\* C17: the cache is written only by the bulk load and by clear: a direct
\* call of get_avg_close_price, whatever its outcome, changes no dict and its
\* value is decided by the feed's answers alone, not by what is cached; no
\* read of the cache adds a key.
C17_WritersOnlyLoadAndClear ==
    /\ [][heap'[CacheRef] # heap[CacheRef] =>
             \/ op' = "clear"
             \/ op = "bulk" /\ op' = "bulk" /\ fpc = "returned"]_vars
    /\ [][(op = "direct" \/ op' = "direct") => heap' = heap]_vars
    /\ []((op = "direct" /\ fpc = "returned") =>
             \/ result.v = None
             \/ /\ clog # <<>>
                /\ clog[Len(clog)].e = "get"
                /\ clog[Len(clog)].r.status = 200
                /\ IsOutcomeOf(result.v, clog[Len(clog)].r.body))
    /\ [][op' \in {"get", "normalize"} =>
             DOMAIN heap'[CacheRef] = DOMAIN heap[CacheRef]]_vars

\* a direct call has returned the price 2 for an asset cached as None, and
\* the cache still has None
C17_Witness ==
    /\ op = "direct"
    /\ fpc = "returned"
    /\ result.v = Frac(2, 1)
    /\ asset_id \in DOMAIN price_cache
    /\ price_cache[asset_id] = None

----------------------------------------------------------------------------
(* Properties of date_to_unix_timestamp *)

\* a is a day of the calendar
ValidYmd(a) == a.d <= days_in_month(a.y, a.m)

RECURSIVE DaysInYears(_, _)
\* the number of days of the years from..(to - 1)
DaysInYears(from, to) ==
    IF from >= to THEN 0
    ELSE (IF is_leap(from) THEN 366 ELSE 365) + DaysInYears(from + 1, to)

RECURSIVE DaysInMonths(_, _)
\* the number of days of the months 1..(m - 1) of year y
DaysInMonths(y, m) ==
    IF m <= 1 THEN 0 ELSE days_in_month(y, m - 1) + DaysInMonths(y, m - 1)

\* the day number of a date counted from the epoch: 1970-01-01 is day 0
DayNumber(a) == DaysInYears(1970, a.y) + DaysInMonths(a.y, a.m) + (a.d - 1)

\* C18: for calendar dates with day numbers d1 <= d2 counted from the epoch,
\* date_to_unix_timestamp returns start = 86400*d1, the second of 00:00:00 UTC
\* of start_date, and end = 86400*d2 + 86399, the second of 23:59:59 UTC of
\* end_date; a single-day range spans exactly 86399 seconds and start <= end.
C18_InclusiveDayRange ==
    (/\ datecalc.k = "done"
     /\ ValidYmd(datecalc.start) /\ ValidYmd(datecalc.end)
     /\ DayNumber(datecalc.start) <= DayNumber(datecalc.end)) =>
        /\ datecalc.out.k = "return"
        /\ datecalc.out.start_timestamp = 86400 * DayNumber(datecalc.start)
        /\ datecalc.out.end_timestamp = 86400 * DayNumber(datecalc.end) + 86399
        /\ datecalc.out.start_timestamp <= datecalc.out.end_timestamp
        /\ datecalc.start = datecalc.end =>
              datecalc.out.end_timestamp - datecalc.out.start_timestamp = 86399

\* the single day 2024-02-29 has been converted to (1709164800, 1709251199)
C18_Witness ==
    /\ datecalc.k = "done"
    /\ datecalc.start = [y |-> 2024, m |-> 2, d |-> 29]
    /\ datecalc.end = datecalc.start
    /\ datecalc.out = [k |-> "return", start_timestamp |-> 1709164800,
                       end_timestamp |-> 1709251199]

----------------------------------------------------------------------------
(* Properties of the retries of get_avg_close_price *)

\* C20: within one call a second or later GET is issued only after a 429
\* answer followed by its backoff sleep of base_delay * 2^attempt: no GET
\* follows another without that sleep in between, so the loop is never
\* continued by the HTTPError handler, which sleeps nothing; the sleeps of one
\* call are strictly increasing when base_delay > 0.
C20_RetryOnlyAfterBackoff ==
    /\ \A i \in GetIdx : i > 1 =>
          /\ i >= 3
          /\ clog[i - 1].e = "sleep"
          /\ clog[i - 2].e = "get"
          /\ clog[i - 2].r.status = 429
          /\ clog[i - 1].secs = base_delay * (2 ^ clog[i - 2].attempt)
          /\ clog[i].attempt = clog[i - 2].attempt + 1
    /\ (fpc = "loop" /\ attempt > 0) =>
          /\ clog # <<>>
          /\ clog[Len(clog)].e = "sleep"
    /\ base_delay > 0 =>
          \A i, j \in DOMAIN Sleeps : i < j => Sleeps[i] < Sleeps[j]

\* a call with base_delay 2 has sent its third GET after two 429s and the
\* sleeps 2 and 4
C20_Witness ==
    /\ base_delay = 2
    /\ Cardinality(GetIdx) = 3
    /\ Statuses[1] = 429 /\ Statuses[2] = 429
    /\ Sleeps[1] = 2 /\ Sleeps[2] = 4

\* C19: a call of get_avg_close_price issues at most max_retries GETs and
\* terminates (returns or raises), whatever the feed answers; with
\* max_retries = 0 it issues no request and returns None; a bulk load over N
\* assets issues at most 3*N GETs and terminates.
C19_BoundedGetsTerminates ==
    /\ [](Cardinality(GetIdx) <= max_retries)
    /\ []((op = "direct" /\ max_retries = 0) => clog = <<>> /\ http_gets = 0)
    /\ []((op = "direct" /\ max_retries = 0 /\ fpc \in {"returned", "raised"}) => ReturnedNone)
    /\ [](op \in BulkOps => http_gets <= 3 * Len(SUPPORTED_ASSETS))
    /\ (fpc = "loop") ~> (fpc \in {"returned", "raised"})
    /\ (op = "bulk") ~> (op \in {"bulk_done", "bulk_raised"})

\* a bulk load has returned after three GETs for every asset
C19_Witness ==
    /\ op = "bulk_done"
    /\ http_gets = 3 * Len(SUPPORTED_ASSETS)

\* a direct call with max_retries = 0 has returned None without a request
C19_WitnessNoBudget ==
    /\ op = "direct" /\ max_retries = 0 /\ ReturnedNone /\ clog = <<>>

====
